---- MODULE Spec2Model ----
(***************************************************************************)
(* The moderation event pipeline of the AT Protocol / HMA bridge.          *)
(*                                                                         *)
(* State: the moderation_logs table (src/src/db/models.py), the configured *)
(* HMA_API_KEY (src/src/core/config.py) and, as history, the request that  *)
(* was handled last together with its response and the table as it was     *)
(* before that request.  Every request handler is one action: it runs from *)
(* the first line of the handler to the response it returns.  Two things   *)
(* stop a handler in between: an outbound call that is not answered, and,  *)
(* for the review webhook, the gap between its lookup and its update, in   *)
(* which another handler can run.                                          *)
(*                                                                         *)
(* The start of the process, from the first requests to the moment every   *)
(* one of them has passed the before_request hook, is a specification of   *)
(* its own (SetupSpec); Spec is the service after that.                    *)
(***************************************************************************)
EXTENDS Integers, Sequences, FiniteSets, TLC

VARIABLES logs, prev, last, HMA_API_KEY,
          \* main.py line 50: the module global _db_initialized
          db_initialized,
          \* the calls of init_db made since the process started
          init_db_calls,
          \* Base.metadata.create_all has completed: the table exists
          tables,
          \* where each request thread of the process start is
          pc

\* the state of the process start
startup == <<db_initialized, init_db_calls, tables, pc>>

vars == <<logs, prev, last, HMA_API_KEY, startup>>

(***************************************************************************)
(* Bounds of the model.                                                    *)
(***************************************************************************)
\* rows the table may hold before the handlers that insert are disabled
MaxLogs == 2

\* requests in one batch of actions
MaxBatch == 2

\* requests that arrive before the first of them has finished the hook
MaxThreads == 3

(***************************************************************************)
(* Values.                                                                 *)
(***************************************************************************)
\* Python's None, and an absent form field, header or JSON key
NULL == "null"

Photos == {"p1", "p2"}
Authors == {"a1", "a2"}
TaskIds == {"t1", "t2"}

\* Optional numbers are sequences: <<>> is None, <<n>> is the number n.
None == <<>>
Some(n) == <<n>>

(***************************************************************************)
(* The engine's answers to POST /m/lookup.  A 200 JSON answer is named;    *)
(* Pdq gives the value of its 'pdq' key: the banks in the order the JSON   *)
(* object lists them, each with the distances of its matches in order.     *)
(***************************************************************************)
LookupResults == {"r_nopdq", "r_one", "r_tie", "r_far_first"}

Pdq(r) ==
    CASE r = "r_one" -> << [bank |-> "A", matches |-> <<2>>] >>
      [] r = "r_tie" -> << [bank |-> "B", matches |-> <<1>>],
                           [bank |-> "A", matches |-> <<1>>] >>
      [] r = "r_far_first" -> << [bank |-> "A", matches |-> <<3, 1>>] >>
      [] OTHER -> << >>

\* what requests.post can do: a named 200 JSON answer, an error status, a 200
\* answer that is not JSON, or an exception (connection refused, timeout)
EngineFailures == {"error_status", "non_json", "exception"}
LookupOutcomes == LookupResults \cup EngineFailures

\* The service that was called accepts the connection and never answers.
NoReply == "no_reply"

\* config.py line 49: the default of REQUEST_TIMEOUT_SECONDS
REQUEST_TIMEOUT_SECONDS == 30

\* what altitude_client.create_review_task can do: return a task (named by its
\* id), return None, or raise
ReviewOutcomes == TaskIds \cup {"returns_none", "raises"}

(***************************************************************************)
(* src/src/db/models.py and src/src/db/session.py                          *)
(***************************************************************************)
\* The attributes the mapped class ModerationLog has.
ModerationLogColumns ==
    {"id", "photo_id", "author_did", "match_result", "match_type",
     "match_score", "action_taken", "hma_response", "created_at",
     "processed_at"}

\* The parameters of log_moderation_event, and those without a default.
LogParams ==
    {"photo_id", "author_did", "match_result", "match_type", "match_score",
     "action_taken", "hma_response"}
LogRequired == {"photo_id", "author_did", "match_result"}

\* The parameters of update_altitude_task; none has a default.
UpdateParams == {"photo_id", "task_id"}

\* A Python call with keyword arguments kw raises TypeError unless every
\* keyword is a parameter of the function and every parameter without a
\* default is given.
Accepts(params, required, kw) ==
    /\ DOMAIN kw \subseteq params
    /\ required \subseteq DOMAIN kw

Arg(kw, k, default) == IF k \in DOMAIN kw THEN kw[k] ELSE default

\* The row log_moderation_event inserts.  id is the serial primary key and
\* created_at the time of the insert; both grow with every insert.  The two
\* altitude fields are the ones main.py passes and reads: the table has the
\* column altitude_task_id once migrate.py has run, but the mapped class and
\* log_moderation_event know neither, so they stay NULL unless LogParams
\* admits them.
NewRow(kw, n) ==
    [id |-> n,
     photo_id |-> kw.photo_id,
     author_did |-> kw.author_did,
     match_result |-> kw.match_result,
     match_type |-> Arg(kw, "match_type", NULL),
     match_score |-> Arg(kw, "match_score", None),
     action_taken |-> Arg(kw, "action_taken", NULL),
     hma_response |-> Arg(kw, "hma_response", NULL),
     created_at |-> n,
     processed_at |-> NULL,
     altitude_task_id |-> Arg(kw, "altitude_task_id", NULL),
     altitude_task_status |-> Arg(kw, "altitude_task_status", NULL)]

\* log_moderation_event writing over the row the photo already has instead
\* of adding a row
log_moderation_event_overwriting(t, kw) ==
    IF \E i \in 1..Len(t) : t[i].photo_id = kw.photo_id
    THEN LET i == CHOOSE i \in 1..Len(t) : t[i].photo_id = kw.photo_id
         IN  [t EXCEPT ![i] = NewRow(kw, i)]
    ELSE Append(t, NewRow(kw, Len(t) + 1))

\* log_moderation_event returning without db.commit(): the session is closed
\* and the row is dropped
log_moderation_event_uncommitted(t, kw) == t

\* log_moderation_event(**kw) on table t: the table afterwards.
log_moderation_event(t, kw) == Append(t, NewRow(kw, Len(t) + 1))

\* order_by(ModerationLog.created_at.desc())
RECURSIVE OrderByCreatedAtDesc(_)
OrderByCreatedAtDesc(rows) ==
    IF rows = << >> THEN << >>
    ELSE LET i == CHOOSE i \in 1..Len(rows) :
                      \A j \in 1..Len(rows) :
                          rows[j].created_at <= rows[i].created_at
         IN  <<rows[i]>> \o OrderByCreatedAtDesc(
                 [j \in 1..(Len(rows) - 1) |->
                      IF j < i THEN rows[j] ELSE rows[j + 1]])

\* the first n elements of a sequence, all of them when it has fewer
Take(rows, n) == SubSeq(rows, 1, IF n < Len(rows) THEN n ELSE Len(rows))

\* the elements after the first n, none when it has no more
Drop(rows, n) == SubSeq(rows, n + 1, Len(rows))

\* get_moderation_logs with .offset(offset) left out
get_moderation_logs_ignoring_offset(t, limit, offset) ==
    Take(OrderByCreatedAtDesc(t), limit)

\* session.py lines 68-85: ORDER BY created_at DESC LIMIT limit OFFSET offset
get_moderation_logs(t, limit, offset) ==
    Take(Drop(OrderByCreatedAtDesc(t), offset), limit)

\* get_moderation_logs_for_photo without its filter on photo_id
get_moderation_logs_unfiltered(t, photo_id) == OrderByCreatedAtDesc(t)

\* session.py lines 87-103
get_moderation_logs_for_photo(t, photo_id) ==
    OrderByCreatedAtDesc(SelectSeq(t, LAMBDA r : r.photo_id = photo_id))

\* session.py lines 105-128: update_altitude_task(**kw) on table t.  raised:
\* the call is a TypeError; found: a row was returned; logs: the table
\* afterwards.  The assignment at line 123 reaches the table only if
\* altitude_task_id is an attribute the class maps to a column.
update_altitude_task(t, kw) ==
    IF ~Accepts(UpdateParams, UpdateParams, kw)
    THEN [raised |-> TRUE, found |-> FALSE, logs |-> t]
    ELSE LET rows == get_moderation_logs_for_photo(t, kw.photo_id)
         IN  IF rows = << >>
             THEN [raised |-> FALSE, found |-> FALSE, logs |-> t]
             ELSE [raised |-> FALSE, found |-> TRUE,
                   logs |-> IF "altitude_task_id" \in ModerationLogColumns
                            THEN [i \in 1..Len(t) |->
                                     IF t[i].id = rows[1].id
                                     THEN [t[i] EXCEPT !.altitude_task_id = kw.task_id]
                                     ELSE t[i]]
                            ELSE t]

(***************************************************************************)
(* The request handled last and its response.  Fields a handler does not   *)
(* read or set keep the values below.                                      *)
(***************************************************************************)
NoRequest ==
    [ep |-> "none",
     \* the request
     image |-> NULL, photo_id |-> NULL, author_did |-> NULL,
     engine |-> NULL, review |-> NULL, download |-> NULL,
     body |-> 0, signature |-> None,
     context |-> NULL, decision |-> NULL, task |-> NULL, delivery |-> 0,
     \* the decision of the callback handled just before for the same photo,
     \* when this callback carries the other decision
     superseded |-> NULL,
     \* the calls made while handling it
     engine_calls |-> 0, review_calls |-> 0, match_info |-> NULL,
     \* whether the database accepted writes while the request was handled,
     \* and the calls of log_moderation_event that raised
     db |-> "up", db_attempts |-> 0,
     \* the number of rows in the table when create_review_task was called
     rows_at_review |-> 0,
     host_call |-> NULL, host |-> NULL, host_attempts |-> 0,
     action_type |-> NULL, metadata |-> NULL,
     \* the reason argument of the takedown call
     reason |-> NULL,
     \* the requests of a batch and the responses returned for them
     batch |-> << >>, responses |-> << >>,
     \* the query arguments of a listing and the ids of the rows the query
     \* returned, in the order it returned them
     limit |-> 0, offset |-> 0, listed |-> << >>,
     \* the outcome a review callback computed from its decision (line 815)
     action_taken |-> NULL,
     \* the id of the row a review callback resolved to (0: none)
     selected |-> 0,
     \* the call the handler is blocked in or has yet to make, and the timeout
     \* argument of that call (None: wait without limit)
     awaiting |-> NULL, timeout |-> None,
     \* another request was handled while this one was between two calls
     interleaved |-> FALSE,
     \* the response
     status |-> 0, success |-> FALSE, error |-> NULL, matches |-> << >>,
     passthrough |-> FALSE,
     \* the flags of a status report
     healthy |-> FALSE, hma_healthy |-> FALSE, atproto_healthy |-> FALSE,
     altitude |-> FALSE, task_created |-> FALSE, task_id |-> NULL]

\* The service is between requests: the last response has been returned.
Idle == last = NoRequest

(***************************************************************************)
(* src/src/main.py: POST /api/v1/match                                     *)
(***************************************************************************)
\* lines 347-356 with the loop over the banks stopping after the first bank
FormatMatchesFirstBank(pdq) ==
    IF pdq = << >> THEN << >>
    ELSE [i \in 1..Len(Head(pdq).matches) |->
             [bank |-> Head(pdq).bank, distance |-> Head(pdq).matches[i]]]

\* lines 343-356: the matches of every bank, in the order the engine lists
\* the banks and, within a bank, its matches
RECURSIVE FormatMatches(_)
FormatMatches(pdq) ==
    IF pdq = << >> THEN << >>
    ELSE [i \in 1..Len(Head(pdq).matches) |->
             [bank |-> Head(pdq).bank, distance |-> Head(pdq).matches[i]]]
         \o FormatMatches(Tail(pdq))

\* lines 275-281: a missing author_did or photo_id is replaced by a default
\* name ending in a fresh uuid4; the number of the next row stands for it
DefaultAuthor(t) == "default_author_" \o ToString(Len(t) + 1)
DefaultPhoto(t) == "default_photo_" \o ToString(Len(t) + 1)

\* lines 360-368, 407-415 and 424-432: the keyword arguments of the calls that
\* log the engine's result without task information
MatchLogArgs(pid, did, engine, matches) ==
    [photo_id |-> pid,
     author_did |-> did,
     match_result |-> matches # << >>,
     match_type |-> "pdq",
     match_score |-> IF matches # << >> THEN Some(matches[1].distance) ELSE None,
     action_taken |-> NULL,
     hma_response |-> engine]

\* lines 387-397: the keyword arguments of the call made when a task came back
MatchTaskLogArgs(pid, did, engine, matches, task) ==
    MatchLogArgs(pid, did, engine, matches)
        @@ [altitude_task_id |-> task, altitude_task_status |-> "pending_review"]

\* lines 371-444: the review task and the second log entry.  t is the table
\* after the first log entry; the result is the table and the "altitude" part
\* of the response.
CreateReviewTask(t, image, pid, did, engine, matches, review) ==
    LET plain == MatchLogArgs(pid, did, engine, matches)
        failed == [logs |-> log_moderation_event(t, plain),
                   task_created |-> FALSE, task_id |-> NULL, review_calls |-> 1,
                   rows_at_call |-> Len(t)]
    IN  IF image # "bytes"
        THEN \* line 439: base64 of an empty file is the empty string
             [logs |-> t, task_created |-> FALSE, task_id |-> NULL,
              review_calls |-> 0, rows_at_call |-> 0]
        ELSE IF review \in TaskIds
        THEN LET kw == MatchTaskLogArgs(pid, did, engine, matches, review)
             IN  IF Accepts(LogParams, LogRequired, kw)
                 THEN [logs |-> log_moderation_event(t, kw),
                       task_created |-> TRUE, task_id |-> review,
                       review_calls |-> 1, rows_at_call |-> Len(t)]
                 ELSE \* TypeError, caught at line 422
                      failed
        ELSE \* None returned (line 404) or an exception raised (line 422)
             failed

\* lines 260-465: the whole handler, as the table and the record of the
\* request and its response
MatchHash(t, image, photo, author, engine, review) ==
    LET req == [NoRequest EXCEPT !.ep = "match", !.image = image,
                    !.photo_id = photo, !.author_did = author,
                    !.engine = engine, !.review = review]
        did == IF author = NULL THEN DefaultAuthor(t) ELSE author
        pid == IF photo = NULL THEN DefaultPhoto(t) ELSE photo
        matches == FormatMatches(Pdq(engine))
        first == MatchLogArgs(pid, did, engine, matches)
        t1 == log_moderation_event(t, first)
        rt == CreateReviewTask(t1, image, pid, did, engine, matches, review)
    IN  IF image = "none"
        THEN \* lines 325-331
             [logs |-> t,
              last |-> [req EXCEPT !.status = 400, !.error = "no_image"]]
        ELSE IF engine = NoReply
        THEN \* line 312: requests.post without a timeout argument
             [logs |-> t,
              last |-> [req EXCEPT !.engine_calls = 1, !.awaiting = "engine",
                            !.timeout = None]]
        ELSE IF engine = "exception"
        THEN \* lines 459-465
             [logs |-> t,
              last |-> [req EXCEPT !.engine_calls = 1, !.status = 500,
                            !.error = "exception"]]
        ELSE IF engine \notin LookupResults
        THEN \* lines 448-458
             [logs |-> t,
              last |-> [req EXCEPT !.engine_calls = 1, !.status = 200,
                            !.error = "hma_error"]]
        ELSE IF ~Accepts(LogParams, LogRequired, first)
        THEN \* TypeError at line 360, caught at line 459
             [logs |-> t,
              last |-> [req EXCEPT !.engine_calls = 1, !.status = 500,
                            !.error = "exception"]]
        ELSE [logs |-> rt.logs,
              last |-> [req EXCEPT !.engine_calls = 1, !.status = 200,
                            !.success = TRUE, !.matches = matches,
                            !.photo_id = pid, !.author_did = did,
                            !.review_calls = rt.review_calls,
                            !.rows_at_review = rt.rows_at_call,
                            !.match_info =
                                IF rt.review_calls = 0 THEN NULL
                                ELSE IF matches # << >> THEN matches[1].bank
                                ELSE "none",
                            !.altitude = TRUE,
                            !.task_created = rt.task_created,
                            !.task_id = rt.task_id]]

\* the handler reaches its first log_moderation_event call (line 360)
MatchWrites(image, engine) == image # "none" /\ engine \in LookupResults

\* lines 260-368 and 459-465 while the database refuses writes: db.commit()
\* in log_moderation_event raises at the call of line 360, which no inner
\* try block encloses; the handler at line 459 answers 500.  The call is
\* made once.
MatchHashDbDown(t, image, photo, author, engine) ==
    [logs |-> t,
     last |-> [NoRequest EXCEPT !.ep = "match", !.image = image,
                   !.photo_id = photo, !.author_did = author,
                   !.engine = engine, !.engine_calls = 1,
                   !.db = "down", !.db_attempts = 1,
                   !.status = 500, !.error = "exception"]]

\* The (photo_id, author_did) pairs requests carry, and both fields missing.
SubmitIds == {<<"p1", "a1">>, <<"p1", "a2">>}
FormIds == SubmitIds \cup {<<NULL, NULL>>}

\* The inputs of a match request.  What the handler does not get to read is
\* not drawn: the engine's answer without an image, the review queue's answer
\* unless the engine answered 200 JSON and the image has bytes, the state of
\* the database unless a row is written.
match_hash ==
    /\ Idle
    /\ \E image \in {"none", "empty", "bytes"} :
       \E ids \in FormIds :
       \E engine \in LookupOutcomes \cup {NoReply, NULL} :
       \E review \in ReviewOutcomes \cup {NULL} :
       \E db \in {"up", "down"} :
           /\ (engine = NULL) <=> (image = "none")
           /\ image = "none" => ids = <<NULL, NULL>>
           /\ db = "down" => MatchWrites(image, engine)
           /\ (review # NULL)
                  <=> (image = "bytes" /\ engine \in LookupResults /\ db = "up")
           /\ LET out == IF db = "down"
                         THEN MatchHashDbDown(logs, image, ids[1], ids[2], engine)
                         ELSE MatchHash(logs, image, ids[1], ids[2], engine,
                                        review)
              IN  /\ Len(out.logs) <= MaxLogs
                  /\ logs' = out.logs
                  /\ last' = out.last
                  /\ prev' = logs
           /\ UNCHANGED <<HMA_API_KEY, startup>>

(***************************************************************************)
(* src/src/main.py: POST /api/v1/hash and POST /api/v1/hash/url            *)
(***************************************************************************)
\* what POST /h/hash can answer: 200 JSON with a 'pdq' key, 200 JSON without
\* one, an error status, a 200 answer that is not JSON, or an exception
HashOutcomes == {"json_pdq", "json_other"} \cup EngineFailures

\* lines 96-197
HashImage(form, engine) ==
    LET req == [NoRequest EXCEPT !.ep = "hash", !.image = form,
                    !.engine = engine, !.engine_calls = 1, !.status = 200]
    IN  CASE engine = NoReply ->
                 \* lines 122 and 148: requests.post without a timeout argument
                 [req EXCEPT !.status = 0, !.awaiting = "engine",
                      !.timeout = None]
          [] engine = "exception" ->
                 \* lines 189-197
                 [req EXCEPT !.error = "bridge_error"]
          [] engine = "json_pdq" ->
                 \* lines 163-171
                 [req EXCEPT !.success = TRUE]
          [] engine = "json_other" ->
                 \* lines 172-174: the engine's JSON is returned as it came
                 [req EXCEPT !.passthrough = TRUE]
          [] OTHER ->
                 \* lines 175-188
                 [req EXCEPT !.error = "hma_error"]

hash_image ==
    /\ Idle
    /\ \E form \in {"bytes", "none"} :
       \E engine \in HashOutcomes \cup {NoReply} :
           /\ last' = HashImage(form, engine)
           /\ prev' = logs
           /\ UNCHANGED <<logs, HMA_API_KEY, startup>>

\* lines 230-238: the keyword arguments of the log entry.  The answer of
\* /h/hash has no 'matches' and no 'distance' key, and neither has the
\* bridge's own error record.
HashUrlLogArgs(photo, author, engine) ==
    [photo_id |-> photo,
     author_did |-> author,
     match_result |-> FALSE,
     match_type |-> "pdq",
     match_score |-> None,
     hma_response |-> IF engine \in {"json_pdq", "json_other"}
                      THEN engine ELSE "hma_error"]

\* lines 204-251
HashImageUrl(t, photo, author, engine) ==
    LET req == [NoRequest EXCEPT !.ep = "hash_url", !.photo_id = photo,
                    !.author_did = author, !.engine = engine,
                    !.engine_calls = 1, !.status = 200]
        kw == HashUrlLogArgs(photo, author, engine)
        resp == IF engine \in {"json_pdq", "json_other"}
                THEN \* line 217: the engine's JSON is the result
                     [req EXCEPT !.passthrough = TRUE]
                ELSE \* lines 218-227
                     [req EXCEPT !.error = "hma_error"]
        bridge_error == [logs |-> t, last |-> [req EXCEPT !.error = "bridge_error"]]
    IN  IF engine = NoReply
        THEN \* lines 211 and 214: requests.post without a timeout argument
             [logs |-> t,
              last |-> [req EXCEPT !.status = 0, !.awaiting = "engine",
                            !.timeout = None]]
        ELSE IF engine = "exception"
        THEN \* lines 243-251
             bridge_error
        ELSE IF photo # NULL /\ author # NULL
        THEN IF Accepts(LogParams, LogRequired, kw)
             THEN [logs |-> log_moderation_event(t, kw), last |-> resp]
             ELSE bridge_error
        ELSE [logs |-> t, last |-> resp]

\* the handler reaches its log_moderation_event call (line 230)
HashUrlWrites(photo, author, engine) ==
    /\ photo # NULL
    /\ author # NULL
    /\ engine \notin {NoReply, "exception"}

\* lines 204-251 while the database refuses writes: the call at line 230
\* raises, once, and the handler at line 243 answers 200 with hma_status
\* bridge_error
HashImageUrlDbDown(t, photo, author, engine) ==
    [logs |-> t,
     last |-> [NoRequest EXCEPT !.ep = "hash_url", !.photo_id = photo,
                   !.author_did = author, !.engine = engine,
                   !.engine_calls = 1, !.db = "down", !.db_attempts = 1,
                   !.status = 200, !.error = "bridge_error"]]

\* line 229: the body carries both author_did and photo_id, or neither
HashUrlIds == {<<"p1", "a1">>, <<NULL, NULL>>}

hash_image_url ==
    /\ Idle
    /\ \E ids \in HashUrlIds :
       \E engine \in HashOutcomes \cup {NoReply} :
       \E db \in {"up", "down"} :
           LET out == IF db = "down"
                      THEN HashImageUrlDbDown(logs, ids[1], ids[2], engine)
                      ELSE HashImageUrl(logs, ids[1], ids[2], engine)
           IN  /\ db = "down" => HashUrlWrites(ids[1], ids[2], engine)
               /\ Len(out.logs) <= MaxLogs
               /\ logs' = out.logs
               /\ last' = out.last
               /\ prev' = logs
               /\ UNCHANGED <<HMA_API_KEY, startup>>

(***************************************************************************)
(* src/src/api/v1/endpoints/hash.py: POST /url, and                        *)
(* src/src/services/hma_client.py: HMAClient.hash_image                    *)
(***************************************************************************)
\* what requests.get(url, timeout=...) can do: return an image, return bytes
\* that are no image, return an error status, raise, or not answer
DownloadOutcomes == {"image", "not_image", "error_status", "exception", NoReply}

\* hma_client.py lines 51-83: session.post without a timeout argument, then
\* raise_for_status and response.json(); TRUE when hash results come back,
\* FALSE when the method raises
HMAClient_hash_image(engine) == engine \in {"json_pdq", "json_other"}

\* hash.py lines 78-108.  The image is fetched with
\* timeout=settings.REQUEST_TIMEOUT_SECONDS and the engine is called with no
\* timeout; every exception becomes a 500 answer.
HashImageFromUrl(download, engine) ==
    LET req == [NoRequest EXCEPT !.ep = "hash_from_url",
                    !.download = download, !.engine = engine]
    IN  IF download = NoReply
        THEN [req EXCEPT !.awaiting = "download",
                  !.timeout = Some(REQUEST_TIMEOUT_SECONDS)]
        ELSE IF download # "image"
        THEN [req EXCEPT !.status = 500, !.error = "exception"]
        ELSE IF engine = NoReply
        THEN [req EXCEPT !.engine_calls = 1, !.awaiting = "engine",
                  !.timeout = None]
        ELSE IF HMAClient_hash_image(engine)
        THEN [req EXCEPT !.engine_calls = 1, !.status = 200, !.success = TRUE]
        ELSE [req EXCEPT !.engine_calls = 1, !.status = 500,
                  !.error = "exception"]

\* The engine's answer is drawn only when the image was fetched.
hash_image_from_url ==
    /\ Idle
    /\ \E download \in DownloadOutcomes :
       \E engine \in HashOutcomes \cup {NoReply, NULL} :
           /\ (engine # NULL) <=> (download = "image")
           /\ last' = HashImageFromUrl(download, engine)
           /\ prev' = logs
           /\ UNCHANGED <<logs, HMA_API_KEY, startup>>

\* The timeout of the call a handler is blocked in expires: requests raises
\* Timeout in the handler.  The one call that is given a timeout is the
\* download at hash.py line 80, whose handler answers 500 (lines 106-108).
timeout_expires ==
    /\ last.awaiting # NULL
    /\ last.timeout # None
    /\ last' = [last EXCEPT !.awaiting = NULL, !.status = 500,
                     !.error = "exception"]
    /\ prev' = logs
    /\ UNCHANGED <<logs, HMA_API_KEY, startup>>

(***************************************************************************)
(* Callbacks from the engine.  A request body is named by a number and     *)
(* Payload gives the JSON object it parses to; a key that is absent is     *)
(* NULL.  severity is the 'severity' key of the object under 'match_info', *)
(* and match_info tells whether that key holds an object when present.     *)
(***************************************************************************)
CallbackBodies == 1..9

Payload(b) ==
    LET none == [event_type |-> NULL, content_id |-> NULL, severity |-> NULL,
                 match_info |-> "object",
                 photo_id |-> NULL, author_did |-> NULL, action |-> NULL]
    IN  CASE b = 1 -> [none EXCEPT !.event_type = "match_found",
                           !.content_id = "c1", !.severity = "high",
                           !.photo_id = "p1", !.author_did = "a1",
                           !.action = "takedown"]
          [] b = 2 -> [none EXCEPT !.event_type = "match_found",
                           !.content_id = "c1", !.severity = "low",
                           !.photo_id = "p1", !.author_did = "a2"]
          [] b = 3 -> [none EXCEPT !.event_type = "match_found",
                           !.severity = "high", !.photo_id = "p2"]
          [] b = 4 -> [none EXCEPT !.event_type = "match_found",
                           !.content_id = "c1"]
          [] b = 5 -> [none EXCEPT !.event_type = "index_updated"]
          [] b = 6 -> [none EXCEPT !.event_type = "error"]
          [] b = 7 -> [none EXCEPT !.event_type = "other"]
          [] b = 9 -> [none EXCEPT !.event_type = "match_found",
                           !.content_id = "c1", !.match_info = "text"]
          [] OTHER -> [none EXCEPT !.photo_id = "p2", !.author_did = "a1"]

\* hmac.new(key, body, sha256).hexdigest(): a digest of the key and the body.
\* A small mixing function stands for SHA-256.
Keys == {1, 2}
Hmac(key, body) == (7 * key + 3 * body + key * body) % 11

\* the X-HMA-Signature header: absent, or the digest of the body under a key
Signatures(b) == {None} \cup {Some(Hmac(k, b)) : k \in Keys}

(***************************************************************************)
(* src/src/main.py: POST /api/v1/webhook/callback                          *)
(***************************************************************************)
\* line 478
CallbackHasPhoto(data) == data.photo_id # NULL /\ data.author_did # NULL

\* lines 479-487
CallbackLogArgs(data) ==
    [photo_id |-> data.photo_id,
     author_did |-> data.author_did,
     match_result |-> FALSE,
     match_type |-> NULL,
     match_score |-> None,
     action_taken |-> data.action,
     hma_response |-> "callback"]

\* lines 472-493.  The handler reads neither HMA_API_KEY nor the signature
\* header.
WebhookCallback(t, b, sig) ==
    LET data == Payload(b)
        req == [NoRequest EXCEPT !.ep = "webhook_callback", !.body = b,
                    !.signature = sig, !.photo_id = data.photo_id,
                    !.author_did = data.author_did]
        kw == CallbackLogArgs(data)
    IN  IF CallbackHasPhoto(data)
        THEN IF Accepts(LogParams, LogRequired, kw)
             THEN [logs |-> log_moderation_event(t, kw),
                   last |-> [req EXCEPT !.status = 200]]
             ELSE [logs |-> t,
                   last |-> [req EXCEPT !.status = 500, !.error = "exception"]]
        ELSE [logs |-> t, last |-> [req EXCEPT !.status = 200]]

\* lines 472-493 while the database refuses writes: the call at line 479
\* raises, once, and the handler at line 491 answers 500
WebhookCallbackDbDown(t, b, sig) ==
    [logs |-> t,
     last |-> [NoRequest EXCEPT !.ep = "webhook_callback", !.body = b,
                   !.signature = sig, !.photo_id = Payload(b).photo_id,
                   !.author_did = Payload(b).author_did,
                   !.db = "down", !.db_attempts = 1,
                   !.status = 500, !.error = "exception"]]

webhook_callback ==
    /\ Idle
    /\ \E b \in CallbackBodies :
       \E sig \in Signatures(b) :
       \E db \in {"up", "down"} :
           LET out == IF db = "down"
                      THEN WebhookCallbackDbDown(logs, b, sig)
                      ELSE WebhookCallback(logs, b, sig)
           IN  /\ db = "down" => CallbackHasPhoto(Payload(b))
               /\ Len(out.logs) <= MaxLogs
               /\ logs' = out.logs
               /\ last' = out.last
               /\ prev' = logs
               /\ UNCHANGED <<HMA_API_KEY, startup>>

(***************************************************************************)
(* src/src/api/v1/endpoints/webhook.py: POST /api/v1/webhook/hma-callback  *)
(***************************************************************************)
\* lines 18-53: TRUE when the request passes, FALSE when 401 is raised
verify_webhook_signature(key, sig, b) ==
    IF key = None
    THEN TRUE
    ELSE IF sig = None
    THEN FALSE
    ELSE sig = Some(Hmac(key[1], b))

\* what the content host does with a call: accept it, or fail (an error
\* status or an exception, both caught inside ATProtoClient)
HostOutcomes == {"ok", "fails"}

\* lines 88-103 with every match queued for review
HostActionIgnoringSeverity(severity) == "queue"

\* lines 86-103: the call made on the content host for a match
HostAction(severity) == IF severity = "high" THEN "takedown" ELSE "queue"

\* lines 66-123.  An HTTPException raised inside the try block is an
\* Exception: the handler at line 121 catches it and raises 500 instead.
\* takedown_content and queue_for_review catch their own exceptions
\* (atproto_client.py lines 71-73 and 110-112), so the call never raises;
\* it is made once, its result is dropped and nothing is written to the
\* table.  host is the content host's answer to the call.
HmaCallback(key, b, sig, host) ==
    LET data == Payload(b)
        req == [NoRequest EXCEPT !.ep = "hma_callback", !.body = b,
                    !.signature = sig, !.host = host]
    IN  IF ~verify_webhook_signature(key, sig, b)
        THEN [req EXCEPT !.status = 401, !.error = "signature"]
        ELSE IF data.event_type = NULL
        THEN [req EXCEPT !.status = 500, !.error = "exception"]
        ELSE IF data.event_type = "match_found"
        THEN IF data.content_id = NULL
             THEN [req EXCEPT !.status = 500, !.error = "exception"]
             ELSE IF data.match_info # "object"
             THEN \* AttributeError at line 86, caught at line 121
                  [req EXCEPT !.status = 500, !.error = "exception"]
             ELSE [req EXCEPT !.status = 200,
                       !.host_call = HostAction(data.severity),
                       !.host_attempts = 1]
        ELSE [req EXCEPT !.status = 200]

\* the handler reaches the call on the content host
CallsHost(key, b, sig) ==
    /\ verify_webhook_signature(key, sig, b)
    /\ Payload(b).event_type = "match_found"
    /\ Payload(b).content_id # NULL
    /\ Payload(b).match_info = "object"

\* The content host's answer is drawn only when the handler calls it.
hma_callback ==
    /\ Idle
    /\ \E b \in CallbackBodies :
       \E sig \in Signatures(b) :
       \E host \in HostOutcomes \cup {NULL} :
           /\ (host # NULL) <=> CallsHost(HMA_API_KEY, b, sig)
           /\ last' = HmaCallback(HMA_API_KEY, b, sig, host)
           /\ prev' = logs
           /\ UNCHANGED <<logs, HMA_API_KEY, startup>>

(***************************************************************************)
(* src/src/api/v1/endpoints/webhook.py: POST /atproto-callback             *)
(***************************************************************************)
\* The payloads of a callback from the content host: no event_type, an
\* image_upload without image_url or content_id, a complete image_upload, a
\* moderation_action, and an event_type the handler does not know.
AtprotoBodies ==
    {"no_event_type", "upload_incomplete", "image_upload",
     "moderation_action", "other"}

\* lines 136-172.  The HTTPException(400) raised at lines 144 and 153 is
\* caught at line 170 and raised again as 500.
AtprotoCallback(b) ==
    LET req == [NoRequest EXCEPT !.ep = "atproto_callback", !.context = b]
    IN  IF b \in {"no_event_type", "upload_incomplete"}
        THEN [req EXCEPT !.status = 500, !.error = "exception"]
        ELSE [req EXCEPT !.status = 200]

atproto_callback ==
    /\ Idle
    /\ \E b \in AtprotoBodies :
           /\ last' = AtprotoCallback(b)
           /\ prev' = logs
           /\ UNCHANGED <<logs, HMA_API_KEY, startup>>

(***************************************************************************)
(* src/src/api/v1/endpoints/action.py: POST /, and                         *)
(* src/src/api/v1/endpoints/status.py: GET /metrics                        *)
(***************************************************************************)
\* config.py lines 43 and 45: both flags are false unless the environment
\* sets them
ENABLE_NCMEC_REPORTING == FALSE
ENABLE_METRICS == FALSE

\* the action_type of a request: the four the handler knows and another
ActionTypes == {"log", "report_ncmec", "takedown", "review", "unknown"}

\* The metadata field of an ActionRequest (models/action.py line 27,
\* Optional[Dict] with default None): absent, an object without a 'reason'
\* key, or an object with one.
Metadatas == {NULL, "no_reason", "with_reason"}

\* action.py line 66: request.metadata.get("reason", "Content policy
\* violation") for a metadata that is an object
TakedownReason(metadata) ==
    IF metadata = "with_reason" THEN "given" ELSE "Content policy violation"

\* the handler reaches its call on the content host: a review request, or a
\* takedown request whose metadata is an object
ActionCallsHost(action_type, metadata) ==
    \/ action_type = "review"
    \/ action_type = "takedown" /\ metadata # NULL

\* action.py lines 29-107.  ncmec_enabled is settings.ENABLE_NCMEC_REPORTING,
\* host the content host's answer to a takedown or review call.  The
\* HTTPException(400) raised at lines 46 and 94 is caught at line 105 and
\* raised again as 500, and so is the AttributeError that
\* request.metadata.get raises at line 66 when metadata is None.
TakeAction(action_type, ncmec_enabled, host, metadata) ==
    LET req == [NoRequest EXCEPT !.ep = "take_action",
                    !.action_type = action_type, !.host = host,
                    !.metadata = metadata]
    IN  CASE action_type = "log" ->
                 [req EXCEPT !.status = 200, !.success = TRUE]
          [] action_type = "report_ncmec" ->
                 IF ~ncmec_enabled
                 THEN [req EXCEPT !.status = 500, !.error = "exception"]
                 ELSE [req EXCEPT !.status = 200, !.success = TRUE,
                           !.engine_calls = 1]
          [] action_type = "takedown" ->
                 IF metadata = NULL
                 THEN [req EXCEPT !.status = 500, !.error = "exception"]
                 ELSE [req EXCEPT !.status = 200, !.success = (host = "ok"),
                           !.host_call = "takedown", !.host_attempts = 1,
                           !.reason = TakedownReason(metadata)]
          [] action_type = "review" ->
                 [req EXCEPT !.status = 200, !.success = (host = "ok"),
                      !.host_call = "queue", !.host_attempts = 1]
          [] OTHER ->
                 [req EXCEPT !.status = 500, !.error = "exception"]

\* The content host's answer is drawn only for the calls that reach it, and
\* the metadata only for a takedown, the one action that reads its keys.
take_action ==
    /\ Idle
    /\ \E action_type \in ActionTypes :
       \E host \in HostOutcomes \cup {NULL} :
       \E metadata \in Metadatas :
           /\ action_type # "takedown" => metadata = "no_reason"
           /\ (host # NULL) <=> ActionCallsHost(action_type, metadata)
           /\ last' = TakeAction(action_type, ENABLE_NCMEC_REPORTING, host,
                                 metadata)
           /\ prev' = logs
           /\ UNCHANGED <<logs, HMA_API_KEY, startup>>

\* The action types of the requests in a batch: one that succeeds, one that
\* take_action raises on, and one whose result depends on the content host.
BatchTypes == {"log", "unknown", "takedown"}

\* The batches: request i has action_id i and a metadata object.
Batches ==
    UNION {{[i \in 1..n |-> [action_id |-> i, action_type |-> types[i]]] :
               types \in [1..n -> BatchTypes]} : n \in 0..MaxBatch}

\* action.py lines 124-141: one pass of the loop.  take_action either
\* returns its ActionResponse or raises HTTPException, which is caught and
\* turned into a response with success = False.
BatchItem(request, ncmec_enabled, host) ==
    LET r == TakeAction(request.action_type, ncmec_enabled,
                        IF ActionCallsHost(request.action_type, "no_reason")
                        THEN host ELSE NULL,
                        "no_reason")
    IN  [action_id |-> request.action_id,
         success |-> IF r.status = 200 THEN r.success ELSE FALSE,
         raised |-> r.status # 200]

\* lines 123-141 with the loop left at the first request that raises
RECURSIVE ProcessBatchStoppingAtFailure(_, _, _)
ProcessBatchStoppingAtFailure(requests, ncmec_enabled, host) ==
    IF requests = << >> THEN << >>
    ELSE LET r == BatchItem(Head(requests), ncmec_enabled, host)
         IN  IF r.raised THEN <<r>>
             ELSE <<r>> \o ProcessBatchStoppingAtFailure(
                               Tail(requests), ncmec_enabled, host)

\* lines 121-141: the responses, appended in the order of the requests
RECURSIVE ProcessBatch(_, _, _)
ProcessBatch(requests, ncmec_enabled, host) ==
    IF requests = << >> THEN << >>
    ELSE <<BatchItem(Head(requests), ncmec_enabled, host)>>
         \o ProcessBatch(Tail(requests), ncmec_enabled, host)

\* lines 109-148
BatchTakeActions(requests, ncmec_enabled, host) ==
    [NoRequest EXCEPT !.ep = "batch_take_actions", !.batch = requests,
         !.host = host, !.status = 200,
         !.responses = ProcessBatch(requests, ncmec_enabled, host)]

\* The content host answers every call of one batch the same way; its
\* answer is drawn only when a request of the batch reaches it.
batch_take_actions ==
    /\ Idle
    /\ \E requests \in Batches :
       \E host \in HostOutcomes \cup {NULL} :
           /\ (host # NULL)
                  <=> (\E i \in 1..Len(requests) :
                          requests[i].action_type = "takedown")
           /\ last' = BatchTakeActions(requests, ENABLE_NCMEC_REPORTING, host)
           /\ prev' = logs
           /\ UNCHANGED <<logs, HMA_API_KEY, startup>>

\* status.py lines 89-119.  metrics_enabled is settings.ENABLE_METRICS; a
\* failure of hma_client.get_metrics is caught at line 97.  The
\* HTTPException(400) raised at line 92 is caught at line 117 and raised
\* again as 500.
GetMetrics(metrics_enabled) ==
    LET req == [NoRequest EXCEPT !.ep = "get_metrics"]
    IN  IF ~metrics_enabled
        THEN [req EXCEPT !.status = 500, !.error = "exception"]
        ELSE [req EXCEPT !.status = 200, !.engine_calls = 1]

get_metrics ==
    /\ Idle
    /\ last' = GetMetrics(ENABLE_METRICS)
    /\ prev' = logs
    /\ UNCHANGED <<logs, HMA_API_KEY, startup>>

\* what GET {base_url}/status of a service can do: answer 200 with JSON, or
\* fail (an error status, a body that is not JSON, or an exception)
StatusOutcomes == {"ok", "fails"}

\* hma_client.py lines 175-199: the exception is logged and raised again;
\* TRUE when the method raises
HMAClient_get_status_raises(engine) == engine = "fails"

\* atproto_client.py lines 114-138: every exception is caught and returned
\* as {"error": ...}; the method never raises
ATProtoClient_get_status_raises(host) == FALSE

\* status.py lines 19-79.  engine is what the engine's status call does and
\* host what the content host's does; a flag is true unless the call raised.
GetStatus(engine, host) ==
    LET hma == ~HMAClient_get_status_raises(engine)
        atproto == ~ATProtoClient_get_status_raises(host)
    IN  [NoRequest EXCEPT !.ep = "get_status", !.engine = engine,
             !.host = host, !.engine_calls = 1, !.host_attempts = 1,
             !.status = 200, !.hma_healthy = hma,
             !.atproto_healthy = atproto, !.healthy = (hma /\ atproto)]

get_status ==
    /\ Idle
    /\ \E engine \in StatusOutcomes :
       \E host \in StatusOutcomes :
           /\ last' = GetStatus(engine, host)
           /\ prev' = logs
           /\ UNCHANGED <<logs, HMA_API_KEY, startup>>

(***************************************************************************)
(* src/src/main.py: GET /api/v1/logs and GET /api/v1/logs/<photo_id>       *)
(***************************************************************************)
\* the values of the query arguments limit and offset; 100 and 0 are the
\* defaults of request.args.get at lines 501 and 502
Limits == {0, 1, 100}
Offsets == {0, 1, 2}

\* the ids of a list of rows
Ids(rows) == [i \in 1..Len(rows) |-> rows[i].id]

\* lines 504-525 and 537-556: the body is built from the rows; reading
\* log.altitude_task_id of the first row raises AttributeError unless the
\* class maps the column, and the handlers at 526 and 557 answer 500
LogsResponse(req, rows) ==
    IF rows # << >> /\ "altitude_task_id" \notin ModerationLogColumns
    THEN [req EXCEPT !.listed = Ids(rows), !.status = 500,
              !.error = "exception"]
    ELSE [req EXCEPT !.listed = Ids(rows), !.status = 200]

\* lines 495-528
GetLogs(t, limit, offset) ==
    LogsResponse([NoRequest EXCEPT !.ep = "get_logs", !.limit = limit,
                      !.offset = offset],
                 get_moderation_logs(t, limit, offset))

get_logs ==
    /\ Idle
    /\ \E limit \in Limits :
       \E offset \in Offsets :
           /\ last' = GetLogs(logs, limit, offset)
           /\ prev' = logs
           /\ UNCHANGED <<logs, HMA_API_KEY, startup>>

\* lines 530-559
GetLogsForPhoto(t, photo) ==
    LogsResponse([NoRequest EXCEPT !.ep = "get_logs_for_photo",
                      !.photo_id = photo],
                 get_moderation_logs_for_photo(t, photo))

get_logs_for_photo ==
    /\ Idle
    /\ \E photo \in Photos :
           /\ last' = GetLogsForPhoto(logs, photo)
           /\ prev' = logs
           /\ UNCHANGED <<logs, HMA_API_KEY, startup>>

(***************************************************************************)
(* src/src/main.py: POST /api/v1/altitude/webhook                          *)
(***************************************************************************)
\* What data['client_context'] can be: text that is not JSON, JSON that is
\* not an object, an object without photo_id, an object without author_did,
\* or an object with both.
Contexts == {"bad_json", "not_object", "no_photo_id", "no_author_did", "ok"}

\* line 815 with the comparison made against "BLOCK"
DecisionActionBlockOnly(decision) ==
    IF decision = "BLOCK" THEN "block" ELSE "approve"

\* line 815
DecisionAction(decision) == IF decision = "APPROVE" THEN "approve" ELSE "block"

\* lines 825-836 with the decision stored on the row that was looked up,
\* whatever its task id
ApplyDecisionUnchecked(t, req, log) ==
    [logs |-> [i \in 1..Len(t) |->
                  IF t[i].id = log.id
                  THEN [t[i] EXCEPT !.altitude_task_status =
                                        DecisionAction(req.decision)]
                  ELSE t[i]],
     last |-> [req EXCEPT !.status = 200]]

\* lines 825-836: the update and the answer.  t is the table when the update
\* runs and log the row the lookup at lines 818-822 returned.
ApplyDecision(t, req, log) ==
    LET upd == update_altitude_task(t,
                   [photo_id |-> req.photo_id,
                    altitude_task_id |-> log.altitude_task_id,
                    altitude_task_status |-> DecisionAction(req.decision)])
        answer(status, error) ==
            [logs |-> t, last |-> [req EXCEPT !.status = status, !.error = error]]
    IN  IF "altitude_task_id" \notin ModerationLogColumns
        THEN \* AttributeError at line 827, caught at line 845
             answer(500, "exception")
        ELSE IF upd.raised
        THEN \* TypeError at line 825, caught at line 845
             answer(500, "exception")
        ELSE IF upd.found
        THEN \* lines 831-833
             [logs |-> upd.logs, last |-> [req EXCEPT !.status = 200]]
        ELSE \* lines 834-836
             answer(500, "update_failed")

\* line 800 reading only client_context
MissingContextOnly(context, decision) == context = NULL

\* line 800: 'client_context' not in data or 'decision' not in data
MissingFields(context, decision) == context = NULL \/ decision = NULL

\* lines 788-847.  context = NULL or decision = NULL: the key is missing from
\* the payload.  task is the task identifier the callback carries; the
\* handler does not read it.
AltitudeWebhook(t, context, photo, author, decision, task) ==
    LET rows == get_moderation_logs_for_photo(t, photo)
        req == [NoRequest EXCEPT !.ep = "altitude_webhook",
                    !.context = context, !.photo_id = photo,
                    !.author_did = author, !.decision = decision,
                    !.task = task,
                    \* line 815, reached with a context that has both ids
                    !.action_taken = IF ~MissingFields(context, decision)
                                           /\ context = "ok"
                                     THEN DecisionAction(decision) ELSE NULL,
                    \* lines 818-822: log = logs[0]
                    !.selected = IF ~MissingFields(context, decision)
                                       /\ context = "ok" /\ rows # << >>
                                 THEN rows[1].id ELSE 0]
        answer(status, error) ==
            [logs |-> t, last |-> [req EXCEPT !.status = status, !.error = error]]
    IN  IF MissingFields(context, decision)
        THEN \* lines 800-802
             answer(400, "invalid_data")
        ELSE IF context = "bad_json"
        THEN \* lines 841-843
             answer(400, "invalid_json")
        ELSE IF context = "not_object"
        THEN \* AttributeError at line 807, caught at line 845
             answer(500, "exception")
        ELSE IF context # "ok"
        THEN \* lines 810-812
             answer(400, "invalid_context")
        ELSE IF rows = << >>
        THEN \* lines 837-839
             answer(404, "not_found")
        ELSE ApplyDecision(t, req, rows[1])

\* The inputs of a review callback.  photo_id and author_did are drawn for a
\* context that has them, the rest for a payload that has a context.
altitude_webhook ==
    /\ Idle
    /\ \E context \in Contexts \cup {NULL} :
       \E photo \in Photos \cup {NULL} :
       \E author \in Authors \cup {NULL} :
       \E decision \in {"APPROVE", "BLOCK", "ESCALATE", NULL} :
       \E task \in TaskIds \cup {NULL} :
           /\ (photo # NULL) <=> (context = "ok")
           /\ (author # NULL) <=> (context = "ok")
           /\ context # "ok" => task = NULL /\ decision \in {"BLOCK", NULL}
           /\ context = NULL => decision = "BLOCK"
           /\ LET out == AltitudeWebhook(logs, context, photo, author, decision, task)
              IN  /\ logs' = out.logs
                  /\ last' = [out.last EXCEPT !.delivery = 1]
                  /\ prev' = logs
           /\ UNCHANGED <<HMA_API_KEY, startup>>

\* The review queue delivers the callback it has just delivered once more:
\* the same payload, handled by the same handler.
altitude_webhook_redelivery ==
    /\ last.ep = "altitude_webhook"
    /\ last.delivery = 1
    /\ LET out == AltitudeWebhook(logs, last.context, last.photo_id,
                                  last.author_did, last.decision, last.task)
       IN  /\ logs' = out.logs
           /\ last' = [out.last EXCEPT !.delivery = 2]
           /\ prev' = logs
    /\ UNCHANGED <<HMA_API_KEY, startup>>

\* The reviewer changes the decision: after a BLOCK or APPROVE callback the
\* review queue sends the other decision for the same photo and task, and
\* the same handler handles it.
altitude_webhook_second_decision ==
    /\ last.ep = "altitude_webhook"
    /\ last.awaiting = NULL
    /\ last.delivery = 1
    /\ last.superseded = NULL
    /\ last.context = "ok"
    /\ last.decision \in {"APPROVE", "BLOCK"}
    /\ \E decision \in {"APPROVE", "BLOCK"} \ {last.decision} :
           LET out == AltitudeWebhook(logs, last.context, last.photo_id,
                                      last.author_did, decision, last.task)
           IN  /\ logs' = out.logs
               /\ last' = [out.last EXCEPT !.delivery = 1,
                                 !.superseded = last.decision]
               /\ prev' = logs
    /\ UNCHANGED <<HMA_API_KEY, startup>>

(***************************************************************************)
(* The review webhook running beside a submission.  The lookup at line 818 *)
(* and the update at line 825 each open a database session of their own    *)
(* (session.py lines 97 and 116), and the server handles requests in       *)
(* parallel: a submission can commit its rows between the two.             *)
(***************************************************************************)
\* lines 788-822 of a well-formed callback for a photo that has rows: the
\* handler holds the row it looked up and has yet to call
\* update_altitude_task
altitude_webhook_lookup ==
    /\ Idle
    /\ \E photo \in Photos :
       \E author \in Authors :
           LET rows == get_moderation_logs_for_photo(logs, photo)
           IN  /\ rows # << >>
               /\ last' = [NoRequest EXCEPT !.ep = "altitude_webhook",
                                !.context = "ok", !.photo_id = photo,
                                !.author_did = author, !.decision = "BLOCK",
                                !.action_taken = DecisionAction("BLOCK"),
                                !.selected = rows[1].id,
                                !.awaiting = "update_altitude_task"]
               /\ prev' = logs
    /\ UNCHANGED <<logs, HMA_API_KEY, startup>>

\* A match submission for the photo of the callback is handled from its
\* first line to its last while the callback is between its lookup and its
\* update.  Its response goes to its own caller and is not recorded.
concurrent_match_hash ==
    /\ last.awaiting = "update_altitude_task"
    /\ ~last.interleaved
    /\ \E author \in Authors :
       \E engine \in {"r_nopdq", "r_one"} :
           LET out == MatchHash(logs, "empty", last.photo_id, author, engine, NULL)
           IN  /\ Len(out.logs) <= MaxLogs
               /\ logs' = out.logs
    /\ last' = [last EXCEPT !.interleaved = TRUE]
    /\ UNCHANGED <<prev, HMA_API_KEY, startup>>

\* lines 825-836 of the callback: the update runs on the table as it is now,
\* with the row object the lookup returned
altitude_webhook_update ==
    /\ last.awaiting = "update_altitude_task"
    /\ LET out == ApplyDecision(logs, [last EXCEPT !.awaiting = NULL],
                                 prev[last.selected])
       IN  /\ logs' = out.logs
           /\ last' = out.last
    /\ UNCHANGED <<prev, HMA_API_KEY, startup>>

(***************************************************************************)
(* The system.  The table is empty when the service starts.  HMA_API_KEY   *)
(* is read from the environment once (config.py line 18) and is either     *)
(* unset or a key.                                                         *)
(***************************************************************************)
Threads == 1..MaxThreads

\* The first request has run the hook alone: init_db was called once, the
\* table exists and the flag is set.
Started ==
    /\ db_initialized = TRUE
    /\ init_db_calls = 1
    /\ tables = TRUE
    /\ pc = [t \in Threads |-> "done"]

Init ==
    /\ logs = << >>
    /\ prev = << >>
    /\ last = NoRequest
    /\ HMA_API_KEY \in {None, Some(1)}
    /\ Started

\* The response is returned to the caller and the service waits for the
\* next request.  A handler blocked in an outbound call has no response.
respond ==
    /\ ~Idle
    /\ last.awaiting = NULL
    /\ last' = NoRequest
    /\ prev' = logs
    /\ UNCHANGED <<logs, HMA_API_KEY, startup>>

Next ==
    \/ respond
    \/ match_hash
    \/ hash_image
    \/ hash_image_url
    \/ hash_image_from_url
    \/ timeout_expires
    \/ webhook_callback
    \/ hma_callback
    \/ atproto_callback
    \/ take_action
    \/ batch_take_actions
    \/ get_metrics
    \/ get_status
    \/ get_logs
    \/ get_logs_for_photo
    \/ altitude_webhook
    \/ altitude_webhook_redelivery
    \/ altitude_webhook_second_decision
    \/ altitude_webhook_lookup
    \/ concurrent_match_hash
    \/ altitude_webhook_update

Spec == Init /\ [][Next]_vars

\* A handler runs on: its response is returned, and a timeout that was set
\* expires.  Nothing makes a service that was called answer.
FairSpec ==
    /\ Spec
    /\ WF_vars(respond)
    /\ WF_vars(timeout_expires)
    /\ WF_vars(altitude_webhook_update)

(***************************************************************************)
(* src/src/main.py lines 49-58: the start of the process.  app.run serves  *)
(* every request in a thread of its own, and Flask runs the before_request *)
(* hook setup() in that thread before the handler.  The hook takes no lock: *)
(* the test of the flag, the call of init_db and the assignment of the     *)
(* flag are separate steps of a thread.                                    *)
(***************************************************************************)
SetupInit ==
    /\ logs = << >>
    /\ prev = << >>
    /\ last = NoRequest
    /\ HMA_API_KEY \in {None, Some(1)}
    /\ db_initialized = FALSE
    /\ init_db_calls = 0
    /\ tables = FALSE
    /\ pc = [t \in Threads |-> "waiting"]

\* a request arrives and its thread enters setup()
request_arrives(t) ==
    /\ pc[t] = "waiting"
    /\ pc' = [pc EXCEPT ![t] = "setup"]
    /\ UNCHANGED <<logs, prev, last, HMA_API_KEY, db_initialized,
                   init_db_calls, tables>>

\* line 55: if not _db_initialized
setup_test(t) ==
    /\ pc[t] = "setup"
    /\ pc' = [pc EXCEPT ![t] = IF db_initialized THEN "handler"
                                ELSE "init_db"]
    /\ UNCHANGED <<logs, prev, last, HMA_API_KEY, db_initialized,
                   init_db_calls, tables>>

\* line 56: init_db() is called
init_db_call(t) ==
    /\ pc[t] = "init_db"
    /\ init_db_calls' = init_db_calls + 1
    /\ pc' = [pc EXCEPT ![t] = "create_all"]
    /\ UNCHANGED <<logs, prev, last, HMA_API_KEY, db_initialized, tables>>

\* session.py line 22: create_all returns; the table exists
init_db_return(t) ==
    /\ pc[t] = "create_all"
    /\ tables' = TRUE
    /\ pc' = [pc EXCEPT ![t] = "set_flag"]
    /\ UNCHANGED <<logs, prev, last, HMA_API_KEY, db_initialized,
                   init_db_calls>>

\* line 58: _db_initialized = True
setup_set_flag(t) ==
    /\ pc[t] = "set_flag"
    /\ db_initialized' = TRUE
    /\ pc' = [pc EXCEPT ![t] = "handler"]
    /\ UNCHANGED <<logs, prev, last, HMA_API_KEY, init_db_calls, tables>>

\* the request's handler runs, reading or writing the table, and returns
handler_runs(t) ==
    /\ pc[t] = "handler"
    /\ pc' = [pc EXCEPT ![t] = "done"]
    /\ UNCHANGED <<logs, prev, last, HMA_API_KEY, db_initialized,
                   init_db_calls, tables>>

SetupNext ==
    \E t \in Threads :
        \/ request_arrives(t)
        \/ setup_test(t)
        \/ init_db_call(t)
        \/ init_db_return(t)
        \/ setup_set_flag(t)
        \/ handler_runs(t)

SetupSpec == SetupInit /\ [][SetupNext]_vars

(***************************************************************************)
(* Properties.  prev is the table before the request in last was handled,  *)
(* logs the table when its response is returned.                           *)
(***************************************************************************)
\* the rows written while the last request was handled
Written == SubSeq(logs, Len(prev) + 1, Len(logs))

\* the match request carried an image and the engine answered 200 with JSON
AcceptedMatch ==
    /\ last.ep = "match"
    /\ last.image # "none"
    /\ last.engine \in LookupResults

\* the review callback was well formed, a context with photo_id and
\* author_did, and a decision, and it has been answered
WellFormedDecision ==
    /\ last.ep = "altitude_webhook"
    /\ last.context = "ok"
    /\ last.decision # NULL
    /\ last.awaiting = NULL

\* some row of table t belongs to photo p
HasEvent(t, p) == \E i \in 1..Len(t) : t[i].photo_id = p

\* the newest row of table t that belongs to photo p
LatestEvent(t, p) ==
    t[CHOOSE i \in 1..Len(t) :
          /\ t[i].photo_id = p
          /\ \A j \in 1..Len(t) :
                 t[j].photo_id = p => t[j].created_at <= t[i].created_at]

\* C1: every accepted match submission has exactly one row written for it
\* when its response is returned, however the review-task creation ended.
C1_ExactlyOneRow == AcceptedMatch => Len(Written) = 1

\* C2: after a match submission with at least one match for which
\* create_review_task returned a task, the newest row of the submission
\* carries the task's id with status pending_review, and the response
\* reports task_created = true with the same id.
C2_TaskRecorded ==
    (AcceptedMatch /\ last.matches # << >> /\ last.review \in TaskIds)
        => /\ Written # << >>
           /\ logs[Len(logs)].altitude_task_id = last.review
           /\ logs[Len(logs)].altitude_task_status = "pending_review"
           /\ last.task_created
           /\ last.task_id = last.review

\* C3: a well-formed BLOCK or APPROVE callback for a photo that has a stored
\* event is answered 200 and the photo's newest event records the decision.
C3_DecisionRecorded ==
    (/\ WellFormedDecision
     /\ last.decision \in {"BLOCK", "APPROVE"}
     /\ HasEvent(prev, last.photo_id))
        => /\ last.status = 200
           /\ LatestEvent(logs, last.photo_id).altitude_task_status =
                  (IF last.decision = "BLOCK" THEN "block" ELSE "approve")

\* C4: the second of two deliveries in a row of the same well-formed decision
\* callback for a photo with a stored event changes no field of any event and
\* is acknowledged.
C4_RedeliveryIdempotent ==
    (/\ WellFormedDecision
     /\ last.delivery = 2
     /\ HasEvent(prev, last.photo_id))
        => /\ logs = prev
           /\ last.status = 200

\* C5: a well-formed decision callback whose task identifier differs from the
\* task id stored on the event it resolves to changes no field of that event
\* and is rejected with a 4xx answer.
C5_MismatchRejected ==
    (/\ WellFormedDecision
     /\ HasEvent(prev, last.photo_id)
     /\ last.task # LatestEvent(prev, last.photo_id).altitude_task_id)
        => /\ logs = prev
           /\ last.status \in 400..499

\* C6: a well-formed decision callback for a photo without a stored event is
\* answered 404 and the table is unchanged.
C6_UnknownPhotoNotFound ==
    (WellFormedDecision /\ ~HasEvent(prev, last.photo_id))
        => /\ last.status = 404
           /\ logs = prev

\* C6 witness: a callback for an unknown photo was answered while other
\* photos had events.
C6_Witness ==
    /\ WellFormedDecision
    /\ prev # << >>
    /\ ~HasEvent(prev, last.photo_id)
    /\ last.status = 404

\* C7: no callback handler creates an event: neither the engine callback
\* endpoint POST /api/v1/webhook/callback nor the review webhook adds a row
\* to the table.
C7_NoCallbackCreates ==
    (last.ep \in {"webhook_callback", "altitude_webhook"} /\ ~last.interleaved)
        => Len(logs) = Len(prev)

\* C8: on every endpoint that receives engine callbacks, with a key
\* configured a callback whose signature header is not the HMAC of its body
\* under the key is answered 401 and has no effect; without a key no
\* callback is turned away for its signature.
C8_SignatureRequired ==
    last.ep \in {"webhook_callback", "hma_callback"} =>
        IF HMA_API_KEY = None
        THEN last.status # 401
        ELSE last.signature # Some(Hmac(HMA_API_KEY[1], last.body))
                 => /\ last.status = 401
                    /\ logs = prev
                    /\ last.host_call = NULL

\* C9: whatever the outbound engine call did, the submission endpoints
\* answer with a status below 500.
C9_NoServerError ==
    (/\ last.ep \in {"hash", "hash_url", "match"}
     /\ last.engine_calls > 0
     /\ last.awaiting = NULL)
        => last.status < 500

\* C10: every match submission that carries an image has a row written for
\* its photo when its response is returned.
C10_EventPersisted ==
    (last.ep = "match" /\ last.image # "none" /\ last.awaiting = NULL)
        => Written # << >>

\* the handlers that take a submission
SubmissionEndpoints == {"hash", "hash_url", "hash_from_url", "match"}

\* C11: every submission handler eventually returns a response, also when
\* the service it called never answers: a handler blocked in an outbound
\* call is released by the timeout of that call.
C11_HandlerReturns ==
    (last.ep \in SubmissionEndpoints) ~> (last.awaiting = NULL)

\* bank identifiers in lexicographic order
BankOrder == <<"A", "B">>
BankRank(b) == CHOOSE i \in 1..Len(BankOrder) : BankOrder[i] = b

\* candidate m is at least as good as candidate n: a lower distance, or the
\* same distance and a bank identifier that is not later
AtLeastAsGood(m, n) ==
    \/ m.distance < n.distance
    \/ m.distance = n.distance /\ BankRank(m.bank) <= BankRank(n.bank)

\* the best of a non-empty list of candidates
BestMatch(ms) ==
    ms[CHOOSE i \in 1..Len(ms) : \A j \in 1..Len(ms) : AtLeastAsGood(ms[i], ms[j])]

\* C12: when the engine returned candidates, the match_score of every row
\* written for the submission is the lowest distance among them, and the
\* candidate passed to the review task is the one of lowest distance, the
\* lexicographically first bank winning a tie, whatever order the engine
\* lists them in.
C12_BestMatchRecorded ==
    (AcceptedMatch /\ last.matches # << >>)
        => /\ \A i \in 1..Len(Written) :
                  Written[i].match_score = Some(BestMatch(last.matches).distance)
           /\ last.review_calls > 0
                  => last.match_info = BestMatch(last.matches).bank

\* C13: the review-queue service is called for a submission only if the
\* engine returned at least one candidate.
C13_ReviewOnlyOnMatch ==
    (last.ep = "match" /\ last.review_calls > 0) => last.matches # << >>

\* the number of candidates in the engine's answer
RECURSIVE NumCandidates(_)
NumCandidates(pdq) ==
    IF pdq = << >> THEN 0
    ELSE Len(Head(pdq).matches) + NumCandidates(Tail(pdq))

\* the review-task creation of the last match submission failed: the client
\* returned nothing or raised
EscalationFailed ==
    /\ AcceptedMatch
    /\ last.review \in {"returns_none", "raises"}

\* C14: when the review-task creation fails, the match submission still
\* answers success = true with every candidate of the engine in its match
\* list and altitude.task_created = false, and the rows stored for it have no
\* review task id.
C14_EscalationFailureNotFatal ==
    EscalationFailed
        => /\ last.status = 200
           /\ last.success
           /\ Len(last.matches) = NumCandidates(Pdq(last.engine))
           /\ last.altitude
           /\ ~last.task_created
           /\ last.task_id = NULL
           /\ Written # << >>
           /\ \A i \in 1..Len(Written) : Written[i].altitude_task_id = NULL

\* C14 witness: a submission that matched in two banks was answered after
\* create_review_task raised.
C14_Witness ==
    /\ EscalationFailed
    /\ last.review = "raises"
    /\ Len(last.matches) = 2
    /\ last.status = 200

\* C15: every row the match path writes records its outcome in
\* action_taken: "logged" when the engine returned no match, a note of the
\* failure when the review-task creation failed, and never null.
C15_OutcomeRecorded ==
    AcceptedMatch
        => /\ \A i \in 1..Len(Written) : Written[i].action_taken # NULL
           /\ (last.matches = << >> /\ ~EscalationFailed /\ Written # << >>)
                  => logs[Len(logs)].action_taken = "logged"

\* some row of table t belongs to photo p and author a
HasPairEvent(t, p, a) ==
    \E i \in 1..Len(t) : t[i].photo_id = p /\ t[i].author_did = a

\* the id of the newest row of table t that belongs to photo p and author a
LatestPairEvent(t, p, a) ==
    CHOOSE i \in 1..Len(t) :
        /\ t[i].photo_id = p /\ t[i].author_did = a
        /\ \A j \in 1..Len(t) :
               (t[j].photo_id = p /\ t[j].author_did = a)
                   => t[j].created_at <= t[i].created_at

\* C16: a well-formed decision callback for (p, a) resolves to the newest
\* row of photo p and author a, and no row of another author is resolved to
\* or changed by it.
C16_PairSelected ==
    WellFormedDecision
        => /\ last.selected # 0
                  => prev[last.selected].author_did = last.author_did
           /\ HasPairEvent(prev, last.photo_id, last.author_did)
                  => last.selected =
                         LatestPairEvent(prev, last.photo_id, last.author_did)
           /\ \A i \in 1..Len(prev) :
                  prev[i].author_did # last.author_did => logs[i] = prev[i]

\* C17: when a submission for the same photo commits between the lookup
\* and the update of a decision callback, the decision is recorded on the
\* row the callback looked up, no row created in between carries it, and
\* the rows the submission committed are as it wrote them.
C17_UpdatesRowLookedUp ==
    (/\ last.ep = "altitude_webhook"
     /\ last.interleaved
     /\ last.awaiting = NULL)
        => /\ logs[last.selected].altitude_task_status =
                  DecisionAction(last.decision)
           /\ \A i \in (Len(prev) + 1)..Len(logs) :
                  logs[i].altitude_task_status = NULL

\* The state machine of an event: its transitions, and the state a stored
\* row is in, read from the fields that record the steps of the pipeline.
Transitions ==
    {<<"RECEIVED", "HASHED">>, <<"RECEIVED", "FAILED">>,
     <<"HASHED", "NO_MATCH">>, <<"NO_MATCH", "ACTION_TAKEN">>,
     <<"HASHED", "MATCHED">>, <<"MATCHED", "REVIEW_PENDING">>,
     <<"MATCHED", "ACTION_TAKEN">>, <<"REVIEW_PENDING", "REVIEW_DECIDED">>,
     <<"REVIEW_DECIDED", "ACTION_TAKEN">>}

EventState(r) ==
    IF r.altitude_task_status \in {"approve", "block"} THEN "REVIEW_DECIDED"
    ELSE IF r.altitude_task_id # NULL THEN "REVIEW_PENDING"
    ELSE IF r.action_taken # NULL THEN "ACTION_TAKEN"
    ELSE IF r.match_result THEN "MATCHED"
    ELSE IF r.hma_response \in LookupResults THEN "NO_MATCH"
    ELSE IF r.hma_response = "hma_error" THEN "FAILED"
    ELSE IF r.match_type # NULL THEN "HASHED"
    ELSE "RECEIVED"

\* the states on a path of at most n transitions from a state of S
RECURSIVE ReachableFrom(_, _)
ReachableFrom(S, n) ==
    IF n = 0 THEN S
    ELSE ReachableFrom(S \cup {e[2] : e \in {d \in Transitions : d[1] \in S}},
                       n - 1)

States == {e[1] : e \in Transitions} \cup {e[2] : e \in Transitions}

\* the pairs <<s, t>> with t on a path of the state machine that starts at s
Paths ==
    UNION {{<<s, t>> : t \in ReachableFrom({s}, Cardinality(Transitions))} :
               s \in States}

MalformedContexts == {"bad_json", "not_object", "no_photo_id", "no_author_did"}

C22_MalformedContextRejected ==
    (/\ last.ep = "altitude_webhook"
     /\ last.context \in MalformedContexts
     /\ last.decision # NULL
     /\ last.awaiting = NULL)
        => /\ last.status \in 400..499
           /\ logs = prev

\* C23: a malformed request is rejected before any effect.  A match request
\* without an image file is answered 400 with no engine call, no review-task
\* call and no row written; a review callback without client_context or
\* without decision is answered 400 with no row looked up and no row changed.
C23_RejectedBeforeEffect ==
    /\ (last.ep = "match" /\ last.image = "none")
           => /\ last.status = 400
              /\ last.engine_calls = 0
              /\ last.review_calls = 0
              /\ logs = prev
    /\ (/\ last.ep = "altitude_webhook"
        /\ last.awaiting = NULL
        /\ (last.context = NULL \/ last.decision = NULL))
           => /\ last.status = 400
              /\ last.selected = 0
              /\ logs = prev

\* a callback with a well-formed context for a photo that has rows, and no
\* decision, has been rejected
C23_Witness ==
    /\ last.ep = "altitude_webhook"
    /\ last.context = "ok"
    /\ last.decision = NULL
    /\ HasEvent(logs, last.photo_id)
    /\ last.status = 400

\* C24: every response of POST /api/v1/hash, /api/v1/hash/url and
\* /api/v1/match has the same shape: it carries the success flag and, when a
\* downstream call failed, typed error fields; it is never the body a
\* downstream service sent.
C24_StableShape ==
    (/\ last.ep \in {"hash", "hash_url", "match"}
     /\ last.awaiting = NULL)
        => ~last.passthrough

\* C30: a client error raised as HTTP 400 inside a handler is answered 400:
\* an engine or content-host callback without event_type, a match_found
\* callback without content_id, an action request with an unknown
\* action_type or with report_ncmec while reporting is disabled, and a
\* metrics request while metrics are disabled.
ClientError ==
    \/ /\ last.ep = "hma_callback"
       /\ last.status # 401
       /\ \/ Payload(last.body).event_type = NULL
          \/ /\ Payload(last.body).event_type = "match_found"
             /\ Payload(last.body).content_id = NULL
    \/ /\ last.ep = "atproto_callback"
       /\ last.context \in {"no_event_type", "upload_incomplete"}
    \/ /\ last.ep = "take_action"
       /\ \/ last.action_type = "unknown"
          \/ last.action_type = "report_ncmec" /\ ~ENABLE_NCMEC_REPORTING
    \/ /\ last.ep = "get_metrics"
       /\ ~ENABLE_METRICS

C30_ClientErrorIs400 == ClientError => last.status = 400

\* C21: when a BLOCK or APPROVE callback for a photo that has a stored event
\* is followed by a callback with the other decision, the photo's newest
\* event records the new decision and the superseded decision can still be
\* read from the event's audit fields.
C21_SupersededKept ==
    (/\ WellFormedDecision
     /\ last.superseded # NULL
     /\ HasEvent(prev, last.photo_id))
        => LET e == LatestEvent(logs, last.photo_id)
           IN  /\ e.altitude_task_status = DecisionAction(last.decision)
               /\ DecisionAction(last.superseded)
                      \in {e.action_taken, e.hma_response}

\* C25: in a match submission the row recording the engine's result is
\* committed before create_review_task is called: when the call is made the
\* table already holds a new row of the submission with the engine's answer,
\* and the row is still there when the response is returned, however the
\* call ended.
C25_RecordedBeforeReview ==
    (AcceptedMatch /\ last.review_calls > 0)
        => /\ last.rows_at_review = Len(prev) + 1
           /\ Len(logs) >= last.rows_at_review
           /\ LET e == logs[Len(prev) + 1]
              IN  /\ e.photo_id = last.photo_id
                  /\ e.author_did = last.author_did
                  /\ e.hma_response = last.engine
                  /\ e.match_result = (last.matches # << >>)

\* create_review_task raised after the engine had found a match
C25_Witness ==
    /\ AcceptedMatch
    /\ last.review = "raises"
    /\ last.review_calls = 1
    /\ last.matches # << >>
    /\ Written # << >>

\* C28: a follow-up action on the content host that fails is tried again,
\* and the outcome of the action, success or failure, is written as
\* action_taken of a row; a callback whose action failed is not answered as
\* processed with nothing written.
ActionRecorded ==
    \E i \in 1..Len(logs) :
        /\ logs[i].action_taken # NULL
        /\ i > Len(prev) \/ logs[i] # prev[i]

C28_HostActionRecorded ==
    (last.ep = "hma_callback" /\ last.host_call # NULL)
        => /\ last.host = "fails" => last.host_attempts >= 2
           /\ ActionRecorded
           /\ last.host = "fails" => ~(last.status = 200 /\ logs = prev)

\* the callback was handled by hma_callback: its signature passed
HandledCallback == last.ep = "hma_callback" /\ last.status # 401

\* C29 as stated: the call hma_callback makes on the content host is
\* determined by event_type and severity alone.  match_found with severity
\* high makes one takedown call, match_found with another or no severity one
\* queue-for-review call, and every other event_type makes no call and is
\* answered with success.
C29_DispatchByTypeAndSeverity ==
    HandledCallback
        => LET data == Payload(last.body)
           IN  /\ (data.event_type = "match_found" /\ data.severity = "high")
                      => last.host_call = "takedown" /\ last.host_attempts = 1
               /\ (data.event_type = "match_found" /\ data.severity # "high")
                      => last.host_call = "queue" /\ last.host_attempts = 1
               /\ data.event_type \notin {"match_found", NULL}
                      => /\ last.host_call = NULL
                         /\ last.host_attempts = 0
                         /\ last.status = 200

\* C29 for the callbacks the handler dispatches: a match_found callback
\* that carries a content_id, and whose match_info is absent or an object,
\* makes one takedown call when the severity is high and one
\* queue-for-review call otherwise; every other event_type makes no call and
\* is answered with success.
C29_DispatchOfCompleteCallback ==
    HandledCallback
        => LET data == Payload(last.body)
               complete == /\ data.event_type = "match_found"
                           /\ data.content_id # NULL
                           /\ data.match_info = "object"
           IN  /\ (complete /\ data.severity = "high")
                      => last.host_call = "takedown" /\ last.host_attempts = 1
               /\ (complete /\ data.severity # "high")
                      => last.host_call = "queue" /\ last.host_attempts = 1
               /\ data.event_type \notin {"match_found", NULL}
                      => /\ last.host_call = NULL
                         /\ last.host_attempts = 0
                         /\ last.status = 200

\* a signed high-severity match with a content_id was dispatched while a key
\* is configured
C29_Witness ==
    /\ HandledCallback
    /\ HMA_API_KEY # None
    /\ Payload(last.body).event_type = "match_found"
    /\ Payload(last.body).severity = "high"
    /\ Payload(last.body).content_id # NULL
    /\ last.host_call = "takedown"

\* the row of table t with the given id
RowById(t, id) == t[CHOOSE i \in 1..Len(t) : t[i].id = id]

\* the number of rows of table t that are newer than row r
NewerThan(t, r) ==
    Cardinality({i \in 1..Len(t) : t[i].created_at > r.created_at})

\* a list of ids names rows of table t from newest to oldest
NewestFirst(t, ids) ==
    \A k, l \in 1..Len(ids) :
        k < l => RowById(t, ids[k]).created_at >= RowById(t, ids[l]).created_at

\* C27: get_moderation_logs(limit, offset) returns the stored rows from
\* newest to oldest, leaving out the first offset rows and returning at most
\* limit rows; get_moderation_logs_for_photo(p) returns exactly the rows of
\* photo p, newest first; neither changes the table.
C27_ListingQueries ==
    /\ last.ep = "get_logs"
           => /\ logs = prev
              /\ NewestFirst(logs, last.listed)
              /\ Len(last.listed) <= last.limit
              /\ LET rest == IF Len(logs) > last.offset
                             THEN Len(logs) - last.offset ELSE 0
                 IN  Len(last.listed) = IF rest < last.limit
                                        THEN rest ELSE last.limit
              /\ \A k \in 1..Len(last.listed) :
                     NewerThan(logs, RowById(logs, last.listed[k]))
                         = last.offset + k - 1
    /\ last.ep = "get_logs_for_photo"
           => /\ logs = prev
              /\ NewestFirst(logs, last.listed)
              /\ {last.listed[k] : k \in 1..Len(last.listed)}
                     = {logs[i].id : i \in {j \in 1..Len(logs) :
                                               logs[j].photo_id = last.photo_id}}
              /\ \A k, l \in 1..Len(last.listed) :
                     last.listed[k] = last.listed[l] => k = l

\* a listing of a table with two rows or more that skipped the newest row
C27_Witness ==
    /\ last.ep = "get_logs"
    /\ Len(logs) >= 2
    /\ last.offset = 1
    /\ last.limit = 1
    /\ Len(last.listed) = 1

\* C26: a write to the table that fails is tried again, at least once and
\* not without end, before the failure is reported, and a request whose
\* write keeps failing is answered as failed (5xx), not as a successful or
\* degraded outcome.
C26_WriteRetriedThenFatal ==
    (last.db = "down" /\ last.awaiting = NULL)
        => /\ last.db_attempts >= 2
           /\ last.status >= 500

\* C34: a takedown action request without metadata is processed with the
\* default reason "Content policy violation": one takedown call is made with
\* that reason, and the response's success is the takedown's result.
C34_DefaultReason ==
    (/\ last.ep = "take_action"
     /\ last.action_type = "takedown"
     /\ last.metadata = NULL)
        => /\ last.host_call = "takedown"
           /\ last.host_attempts = 1
           /\ last.reason = "Content policy violation"
           /\ last.status = 200
           /\ last.success = (last.host = "ok")

\* C32: the status report says healthy exactly when both status calls, the
\* engine's and the content host's, succeeded; when the content host's call
\* fails, components.atproto.healthy and the overall flag are false.
C32_HealthyIffBothSucceed ==
    last.ep = "get_status"
        => /\ last.healthy <=> (last.engine = "ok" /\ last.host = "ok")
           /\ last.host = "fails"
                  => ~last.atproto_healthy /\ ~last.healthy

\* request i of the batch is one whose action fails: its type is unknown, or
\* it is a takedown the content host did not accept
ActionFails(i) ==
    \/ last.batch[i].action_type = "unknown"
    \/ last.batch[i].action_type = "takedown" /\ last.host = "fails"

\* C31: batch_take_actions returns one response per request, in the order
\* of the requests, each with its request's action_id; a request whose
\* action fails gets a response with success = false, and the requests
\* after it are processed as they would be alone.
C31_OneResponsePerRequest ==
    last.ep = "batch_take_actions"
        => /\ last.status = 200
           /\ Len(last.responses) = Len(last.batch)
           /\ \A i \in 1..Len(last.batch) :
                  /\ last.responses[i].action_id = last.batch[i].action_id
                  /\ last.responses[i].success = ~ActionFails(i)

\* a batch whose first request failed and whose second succeeded
C31_Witness ==
    /\ last.ep = "batch_take_actions"
    /\ Len(last.batch) = 2
    /\ last.batch[1].action_type = "unknown"
    /\ last.batch[2].action_type = "log"
    /\ Len(last.responses) = 2
    /\ last.responses[2].success

\* C35: the review webhook turns the decision of a callback into the outcome
\* it hands on for recording: "APPROVE" gives approve and every other value,
\* BLOCK or a string it does not know, gives block; no callback is rejected
\* for the value of its decision: the only 4xx answer to a callback with a
\* well-formed context and a decision is 404 for a photo without events.
C35_DecisionMapping ==
    (/\ last.ep = "altitude_webhook"
     /\ last.context = "ok"
     /\ last.decision # NULL)
        => /\ last.action_taken =
                  (IF last.decision = "APPROVE" THEN "approve" ELSE "block")
           /\ last.status \in 400..499
                  => last.status = 404 /\ ~HasEvent(prev, last.photo_id)

\* a callback with a decision the handler does not know, for a photo that
\* has events, was mapped to block
C35_Witness ==
    /\ last.ep = "altitude_webhook"
    /\ last.context = "ok"
    /\ last.decision = "ESCALATE"
    /\ HasEvent(prev, last.photo_id)
    /\ last.awaiting = NULL
    /\ last.action_taken = "block"

\* C33: however the first requests interleave, init_db is called exactly
\* once in the process, and it has returned before any handler reads or
\* writes the table.
C33_InitOnceBeforeUse ==
    /\ init_db_calls <= 1
    /\ \A t \in Threads :
           pc[t] \in {"handler", "done"} => tables /\ init_db_calls = 1

====
